---- MODULE Spec2Model ----
(***************************************************************************)
(* A model of atmos/atmos.py: the SimpleAtmos object (three sea-level      *)
(* reference quantities and a default altitude), its setters, its queries  *)
(* pressure / temperature / density and the ratios computation with its    *)
(* binary search over the 1976 standard-atmosphere table.                  *)
(*                                                                         *)
(* Numbers.  Altitudes are integers (metres).  The geopotential altitude   *)
(* h = alt*REARTH/(alt+REARTH) is kept as the exact fraction <<num, den>>, *)
(* so that every comparison h < htab[k] of the search is decided exactly.  *)
(* The ratios are kept exact where the float computation is exact          *)
(* (deltah = 0, or an isothermal layer for theta) and as a term naming the *)
(* formula, the layer and deltah elsewhere (exp and ** are not computed).  *)
(***************************************************************************)
EXTENDS Integers, FiniteSets, Sequences, TLC

VARIABLES
    df,                     \* the table read from assets/atmosData.csv
    alt,                    \* self.alt, the default altitude
    sea_level_pressure,     \* self.__sea_level_pressure
    sea_level_temperature,  \* self.__sea_level_temperature
    sea_level_density,      \* self.__sea_level_density
    pc,                     \* where the running call stands ("idle": none)
    call,                   \* the running / most recent call and its arguments
    altitude,               \* the queries' local `altitude`
    ratios_alt,             \* the argument `alt` of ratios
    h, i, j, k,             \* locals of ratios
    reads,                  \* the indexes of htab the search has read
    triple,                 \* what ratios returned
    ret,                    \* what the query returned
    err,                    \* the exception the call raised ("" if none)
    assigned                \* the last Quantity handed to each setter

vars == <<df, alt, sea_level_pressure, sea_level_temperature, sea_level_density,
          pc, call, altitude, ratios_alt, h, i, j, k, reads, triple, ret, err,
          assigned>>

fields == <<sea_level_pressure, sea_level_temperature, sea_level_density>>

locals == <<altitude, ratios_alt, h, i, j, k, reads, triple, ret>>

-----------------------------------------------------------------------------
(* Bounds of the model *)

\* the largest altitude (metres, after conversion) a call is made with
MaxAlt == 16

-----------------------------------------------------------------------------
(* Python values: None, a raw number, a units.Value *)

None == [t |-> "None", mag |-> 0, unit |-> "", inner |-> ""]

Num(n) == [t |-> "num", mag |-> n, unit |-> "", inner |-> ""]

\* units.Value(x, u).  x is a raw number in every intended use; the queries also
\* build it from None (no default altitude) and from a Value (a unit given with
\* a Quantity), which the record keeps apart.
Value(x, u) ==
    IF x.t = "num" THEN [t |-> "Value", mag |-> x.mag, unit |-> u, inner |-> ""]
    ELSE IF x.t = "None" THEN [t |-> "ValueOfNone", mag |-> 0, unit |-> u, inner |-> ""]
    ELSE [t |-> "ValueOfValue", mag |-> x.mag, unit |-> u, inner |-> x.unit]

\* type(x) == units.Value
IsValue(x) == x.t \in {"Value", "ValueOfNone", "ValueOfValue"}

NoUnit == "None"

Units == {"m", "km"}

\* the conversion factor to SI of a length unit
Factor(u) == IF u = "km" THEN 1000 ELSE 1

\* The outcomes of v.SIValue: the magnitude times the unit's factor.  A None
\* magnitude has no product (TypeError).  For a Value wrapped in a Value the
\* outcome depends on the units package: it fails, or both factors are applied.
SIValue(v) ==
    IF v.t = "Value" THEN {[raised |-> FALSE, val |-> v.mag * Factor(v.unit)]}
    ELSE IF v.t = "ValueOfValue"
         THEN {[raised |-> TRUE, val |-> 0],
               [raised |-> FALSE, val |-> v.mag * Factor(v.inner) * Factor(v.unit)]}
    ELSE {[raised |-> TRUE, val |-> 0]}

-----------------------------------------------------------------------------
(* The table *)

Tab(s) == [x \in 0..(Len(s) - 1) |-> s[x + 1]]

\* Rows of assets/atmosData.csv: 8 rows, h(m) strictly increasing from 0.
\* T(K) and P(Pascal) are the 1976 values rounded to integers, dT(K/m) is in
\* units of 1e-4 K/m; the base altitudes are scaled into the modelled range.
LayerTables ==
    { [htab |-> Tab(<<0, 2, 3, 5, 8, 9, 12, 14>>),
       gtab |-> Tab(<<-65, 0, 10, 28, 0, -28, -20, 0>>),
       ttab |-> Tab(<<288, 217, 217, 229, 271, 271, 215, 187>>),
       ptab |-> Tab(<<101325, 22632, 5475, 868, 111, 67, 4, 1>>)],
      [htab |-> Tab(<<0, 1, 2, 3, 4, 5, 6, 7>>),
       gtab |-> Tab(<<-65, 0, 10, 28, 0, -28, -20, -20>>),
       ttab |-> Tab(<<288, 217, 217, 229, 271, 271, 215, 187>>),
       ptab |-> Tab(<<101325, 22632, 5475, 868, 111, 67, 4, 1>>)] }

-----------------------------------------------------------------------------
(* Constants of the program *)

\* radius of Earth (m)
REARTH == 6369000

NTAB_over == 8 + 1

\* number of entries in the defining tables
NTAB == 8

-----------------------------------------------------------------------------
(* Ratios: exact fractions and terms *)

RECURSIVE GCD(_, _)
GCD(a, b) == IF b = 0 THEN a ELSE GCD(b, a % b)

\* the quotient n/d of two positive table values (0 when n = 0), in lowest terms
Frac(n, d) ==
    LET g == GCD(n, d)
    IN  [sym |-> "exact", i |-> 0, n |-> n \div g, d |-> d \div g]

\* the value of formula sym on layer idx at deltah = dh (not evaluated)
Term(sym, idx, dh) == [sym |-> sym, i |-> idx, n |-> dh[1], d |-> dh[2]]

One == [sym |-> "exact", i |-> 0, n |-> 1, d |-> 1]

\* np.float32(0.0)
Zero == [sym |-> "exact", i |-> 0, n |-> 0, d |-> 1]

NoRatio == [sym |-> "none", i |-> 0, n |-> 0, d |-> 1]

ZeroTriple == [sigma |-> Zero, delta |-> Zero, theta |-> Zero]

NoTriple == [sigma |-> NoRatio, delta |-> NoRatio, theta |-> NoRatio]

\* Quantity * ratio: the magnitude scaled, the unit kept
Mul(v, r) == [of |-> v, times |-> r]

NoRet == [of |-> None, times |-> NoRatio]

-----------------------------------------------------------------------------
(* ratios: the pure parts *)

NegativeAltitude_off(a) == a < -1

\* alt < 0
NegativeAltitude(a) == a < 0

\* h = alt*REARTH/(alt+REARTH), as the fraction <<numerator, denominator>>
Geopotential(a) == <<a * REARTH, a + REARTH>>

\* h < htab[k], for h = x[1]/x[2] with x[2] > 0
Below(x, t) == x[1] < t * x[2]

\* k = (i+j)//2
Midpoint(lo, hi) == (lo + hi) \div 2

Narrow_short(lo, hi, mid, below) == IF below THEN <<lo, mid - 1>> ELSE <<mid, hi>>

\* if h < htab[k]: j = k  else: i = k; the new <<i, j>>
Narrow(lo, hi, mid, below) == IF below THEN <<lo, mid>> ELSE <<mid, hi>>

LoopDone_late(lo, hi) == hi <= lo

\* if j <= i+1: break
LoopDone(lo, hi) == hi <= lo + 1

\* deltah = h - htab[i]
Deltah(t, idx, x) == <<x[1] - t.htab[idx] * x[2], x[2]>>

\* tlocal = tbase + tgrad*deltah; theta = tlocal / ttab[0].
\* tlocal is tbase itself when tgrad or deltah is 0.
Theta(t, idx, dh) ==
    IF t.gtab[idx] = 0 \/ dh[1] = 0
    THEN Frac(t.ttab[idx], t.ttab[0])
    ELSE Term("theta", idx, dh)

Delta_raw(t, idx, dh) ==
    IF dh[1] = 0
    THEN Frac(t.ptab[idx], 1)
    ELSE IF t.gtab[idx] = 0
         THEN Term("delta_exp_raw", idx, dh)
         ELSE Term("delta_pow_raw", idx, dh)

\* tgrad == 0.0: delta = ptab[i] * exp(-GMR*deltah/tbase) / ptab[0]
\* else:         delta = ptab[i] * (tbase/tlocal)**(GMR/tgrad) / ptab[0]
\* At deltah = 0 both exp(-0.0) and 1.0**x are 1.0.
Delta(t, idx, dh) ==
    IF dh[1] = 0
    THEN Frac(t.ptab[idx], t.ptab[0])
    ELSE IF t.gtab[idx] = 0
         THEN Term("delta_exp", idx, dh)
         ELSE Term("delta_pow", idx, dh)

\* sigma = delta/theta
Sigma(delta, theta, idx, dh) ==
    IF delta.sym = "exact" /\ theta.sym = "exact"
    THEN Frac(delta.n * theta.d, delta.d * theta.n)
    ELSE Term("sigma", idx, dh)

\* lines 95-109 for layer idx at geopotential altitude x
RatioTriple(t, idx, x) ==
    LET dh == Deltah(t, idx, x)
        theta == Theta(t, idx, dh)
        delta == Delta(t, idx, dh)
    IN  [sigma |-> Sigma(delta, theta, idx, dh), delta |-> delta, theta |-> theta]

-----------------------------------------------------------------------------
(* The inputs the calls are made with *)

Quantity(m, u) == Value(Num(m), u)

\* the defaults of __init__
DefaultPressure == Quantity(101325, "Pa")

DefaultTemperature == Quantity(298, "K")

\* 1.29 kg/m^3, the magnitude in hundredths
DefaultDensity == Quantity(129, "kg/m^3")

\* what the caller hands to a setter: a Quantity, a raw number, None
SetterArgs == {Quantity(300, "K"), Num(5), None}

\* the alt the instance is constructed with
DefaultAlts == {None, Quantity(5, "m")}

\* the magnitudes the queries are called with
QueryMags == {-1, 0, 5, MaxAlt}

RawAlts == {Num(n) : n \in QueryMags}

ValueAlts == {q \in {Quantity(n, u) : n \in QueryMags, u \in Units} :
                q.mag * Factor(q.unit) <= MaxAlt}

\* the altitude argument of a query: omitted, a raw number, a Quantity
QueryAlts == {None} \cup RawAlts \cup ValueAlts

QueryUnits == {NoUnit} \cup Units

QueryOps == {"pressure", "temperature", "density"}

SetterOps == {"set_sea_level_pressure", "set_sea_level_temperature", "set_sea_level_density"}

NoCall == [op |-> "", arg |-> None, uni |-> NoUnit]

-----------------------------------------------------------------------------
(* The instance *)

\* SimpleAtmos(alt): lines 18-23, with the table of the installation
Init ==
    /\ df \in LayerTables
    /\ alt \in DefaultAlts
    /\ sea_level_pressure = DefaultPressure
    /\ sea_level_temperature = DefaultTemperature
    /\ sea_level_density = DefaultDensity
    /\ pc = "idle"
    /\ call = NoCall
    /\ altitude = None
    /\ ratios_alt = 0
    /\ h = <<0, 1>>
    /\ i = 0
    /\ j = 0
    /\ k = 0
    /\ reads = {}
    /\ triple = NoTriple
    /\ ret = NoRet
    /\ err = ""
    /\ assigned = [pressure |-> DefaultPressure,
                   temperature |-> DefaultTemperature,
                   density |-> DefaultDensity]

\* ratios starts with no locals and nothing returned
FreshSearch ==
    /\ h' = <<0, 1>>
    /\ i' = 0
    /\ j' = 0
    /\ k' = 0
    /\ reads' = {}
    /\ triple' = NoTriple
    /\ ret' = NoRet

\* a call starts with no locals and nothing returned
FreshLocals ==
    /\ altitude' = None
    /\ ratios_alt' = 0
    /\ FreshSearch

-----------------------------------------------------------------------------
(* The setters *)

set_sea_level_pressure_unchecked(v) ==
    /\ pc = "idle"
    /\ call' = [op |-> "set_sea_level_pressure", arg |-> v, uni |-> NoUnit]
    /\ FreshLocals
    /\ err' = IF IsValue(v) THEN "" ELSE "TypeError"
    /\ sea_level_pressure' = v
    /\ assigned' = IF IsValue(v) THEN [assigned EXCEPT !.pressure = v] ELSE assigned
    /\ UNCHANGED <<df, alt, pc, sea_level_temperature, sea_level_density>>

\* lines 29-34
set_sea_level_pressure(v) ==
    /\ pc = "idle"
    /\ call' = [op |-> "set_sea_level_pressure", arg |-> v, uni |-> NoUnit]
    /\ FreshLocals
    /\ IF ~IsValue(v)
       THEN /\ err' = "TypeError"
            /\ UNCHANGED <<sea_level_pressure, assigned>>
       ELSE /\ err' = ""
            /\ sea_level_pressure' = v
            /\ assigned' = [assigned EXCEPT !.pressure = v]
    /\ UNCHANGED <<df, alt, pc, sea_level_temperature, sea_level_density>>

\* lines 40-44
set_sea_level_density(v) ==
    /\ pc = "idle"
    /\ call' = [op |-> "set_sea_level_density", arg |-> v, uni |-> NoUnit]
    /\ FreshLocals
    /\ IF ~IsValue(v)
       THEN /\ err' = "TypeError"
            /\ UNCHANGED <<sea_level_density, assigned>>
       ELSE /\ err' = ""
            /\ sea_level_density' = v
            /\ assigned' = [assigned EXCEPT !.density = v]
    /\ UNCHANGED <<df, alt, pc, sea_level_pressure, sea_level_temperature>>

\* lines 50-53: the type check, and no assignment after it
set_sea_level_temperature(v) ==
    /\ pc = "idle"
    /\ call' = [op |-> "set_sea_level_temperature", arg |-> v, uni |-> NoUnit]
    /\ FreshLocals
    /\ IF ~IsValue(v)
       THEN /\ err' = "TypeError"
            /\ UNCHANGED assigned
       ELSE /\ err' = ""
            /\ assigned' = [assigned EXCEPT !.temperature = v]
    /\ UNCHANGED <<df, alt, pc, sea_level_pressure, sea_level_temperature,
                   sea_level_density>>

-----------------------------------------------------------------------------
(* The queries *)

\* what the query's `alt` is after lines 112-113
EffectiveAlt(a, default) == IF a = None THEN default ELSE a

\* lines 116-119: the query's `altitude`
AltitudeOf(a, u) == IF u # NoUnit THEN Value(a, u) ELSE a

Query_storing(op, a, u) ==
    /\ pc = "idle"
    /\ call' = [op |-> op, arg |-> a, uni |-> u]
    /\ LET a1 == EffectiveAlt(a, alt)
       IN  /\ alt' = a1
           /\ IF u = NoUnit /\ ~IsValue(a1)
              THEN /\ err' = "TypeError"
                   /\ pc' = "idle"
                   /\ FreshLocals
              ELSE LET q == AltitudeOf(a1, u)
                   IN  /\ \A out \in SIValue(q) : out.val <= MaxAlt
                       /\ \E out \in SIValue(q) :
                            /\ altitude' = q
                            /\ err' = IF out.raised THEN "TypeError" ELSE ""
                            /\ pc' = IF out.raised THEN "idle" ELSE "ratios"
                            /\ ratios_alt' = out.val
                            /\ FreshSearch
    /\ UNCHANGED <<df, fields, assigned>>

\* lines 112-121 (as 125-134 and 138-147), up to the call of ratios:
\* the default altitude, the unit check, the Quantity, its SIValue
Query(op, a, u) ==
    /\ pc = "idle"
    /\ call' = [op |-> op, arg |-> a, uni |-> u]
    /\ LET a1 == EffectiveAlt(a, alt)
       IN  IF u = NoUnit /\ ~IsValue(a1)
           THEN /\ err' = "TypeError"
                /\ pc' = "idle"
                /\ FreshLocals
           ELSE LET q == AltitudeOf(a1, u)
                IN  /\ \A out \in SIValue(q) : out.val <= MaxAlt
                    /\ \E out \in SIValue(q) :
                         /\ altitude' = q
                         /\ err' = IF out.raised THEN "TypeError" ELSE ""
                         /\ pc' = IF out.raised THEN "idle" ELSE "ratios"
                         /\ ratios_alt' = out.val
                         /\ FreshSearch
    /\ UNCHANGED <<df, alt, fields, assigned>>

pressure(a, u) == Query("pressure", a, u)

temperature(a, u) == Query("temperature", a, u)

density(a, u) == Query("density", a, u)

\* the reference a query multiplies: lines 122, 135, 148
Reference(op) ==
    IF op = "pressure" THEN sea_level_pressure
    ELSE IF op = "temperature" THEN sea_level_temperature
    ELSE sea_level_density

\* the ratio a query multiplies it by
Ratio(op, t) ==
    IF op = "pressure" THEN t.delta
    ELSE IF op = "temperature" THEN t.theta
    ELSE t.sigma

-----------------------------------------------------------------------------
(* ratios *)

\* a direct call ratios(a), a in metres
ratios(a) ==
    /\ pc = "idle"
    /\ call' = [op |-> "ratios", arg |-> Num(a), uni |-> NoUnit]
    /\ altitude' = None
    /\ FreshSearch
    /\ err' = ""
    /\ pc' = "ratios"
    /\ ratios_alt' = a
    /\ UNCHANGED <<df, alt, fields, assigned>>

\* lines 57-58, 74, 81-82: the altitude check, h, the search bounds
ratios_enter ==
    /\ pc = "ratios"
    /\ IF NegativeAltitude(ratios_alt)
       THEN /\ err' = "ValueError"
            /\ pc' = "idle"
            /\ UNCHANGED <<h, i, j>>
       ELSE /\ h' = Geopotential(ratios_alt)
            /\ i' = 0
            /\ j' = NTAB
            /\ pc' = "loop"
            /\ UNCHANGED err
    /\ UNCHANGED <<df, alt, fields, assigned, call, altitude, ratios_alt, k, reads,
                   triple, ret>>

\* lines 85-93: one turn of the while loop; htab[k] outside the table's index
\* raises KeyError, which returns the zero triple
ratios_search ==
    /\ pc = "loop"
    /\ LET mid == Midpoint(i, j)
       IN  /\ k' = mid
           /\ IF mid \notin DOMAIN df.htab
              THEN /\ triple' = ZeroTriple
                   /\ pc' = "return"
                   /\ UNCHANGED <<i, j, reads>>
              ELSE LET ij == Narrow(i, j, mid, Below(h, df.htab[mid]))
                   IN  /\ reads' = reads \cup {mid}
                       /\ i' = ij[1]
                       /\ j' = ij[2]
                       /\ pc' = IF LoopDone(ij[1], ij[2]) THEN "compute" ELSE "loop"
                       /\ UNCHANGED triple
    /\ UNCHANGED <<df, alt, fields, assigned, call, altitude, ratios_alt, h, ret, err>>

\* lines 95-109
ratios_compute ==
    /\ pc = "compute"
    /\ triple' = RatioTriple(df, i, h)
    /\ pc' = "return"
    /\ UNCHANGED <<df, alt, fields, assigned, call, altitude, ratios_alt, h, i, j, k,
                   reads, ret, err>>

\* ratios returns: to its caller, or into lines 122, 135, 148
ratios_return ==
    /\ pc = "return"
    /\ ret' = IF call.op \in QueryOps
              THEN Mul(Reference(call.op), Ratio(call.op, triple))
              ELSE NoRet
    /\ pc' = "idle"
    /\ UNCHANGED <<df, alt, fields, assigned, call, altitude, ratios_alt, h, i, j, k,
                   reads, triple, err>>

-----------------------------------------------------------------------------
(* The specification *)

\* a step of the running call
Step == ratios_enter \/ ratios_search \/ ratios_compute \/ ratios_return

Next ==
    \/ \E v \in SetterArgs : set_sea_level_pressure(v)
    \/ \E v \in SetterArgs : set_sea_level_density(v)
    \/ \E v \in SetterArgs : set_sea_level_temperature(v)
    \/ \E a \in QueryAlts, u \in QueryUnits : pressure(a, u)
    \/ \E a \in QueryAlts, u \in QueryUnits : temperature(a, u)
    \/ \E a \in QueryAlts, u \in QueryUnits : density(a, u)
    \/ \E a \in -1..MaxAlt : ratios(a)
    \/ ratios_enter
    \/ ratios_search
    \/ ratios_compute
    \/ ratios_return

Spec == Init /\ [][Next]_vars

\* a call that has started runs on: the program is sequential
FairSpec == Spec /\ WF_vars(Step)

-----------------------------------------------------------------------------
(* Properties *)

\* the index of the table's last band
TopIndex(t) == CHOOSE x \in DOMAIN t.htab : \A y \in DOMAIN t.htab : y <= x

StrictlyIncreasing(f) == \A x, y \in DOMAIN f : x < y => f[x] < f[y]

\* ratios has returned a triple (to its caller, or into the query)
RatiosReturned == triple # NoTriple

\* the search of ratios is over
SearchEnded == pc = "compute" \/ RatiosReturned

\* a query has returned its Quantity
QueryReturned == pc = "idle" /\ call.op \in QueryOps /\ err = "" /\ ret # NoRet

\* C1: each of the three sea-level fields is replaceable with a Quantity: after
\* assigning Quantity v to field f the getter of f returns v, and the next query
\* of that kind multiplies v by its ratio.
C1_FieldsReplaceable ==
    /\ sea_level_pressure = assigned.pressure
    /\ sea_level_temperature = assigned.temperature
    /\ sea_level_density = assigned.density
    /\ QueryReturned =>
         ret.of = assigned[call.op] /\ ret.times = Ratio(call.op, triple)

\* C2: assigning a value that is not a Quantity to a sea-level field raises
\* TypeError and leaves all three fields as they were, from any state.
C2_NonQuantityRejected ==
    [][(pc = "idle" /\ call'.op \in SetterOps /\ ~IsValue(call'.arg))
         => (err' = "TypeError" /\ UNCHANGED fields)]_vars

\* C2 witness: a raw number was refused for a field that had been replaced before
C2_Witness ==
    /\ pc = "idle"
    /\ call = [op |-> "set_sea_level_pressure", arg |-> Num(5), uni |-> NoUnit]
    /\ err = "TypeError"
    /\ sea_level_pressure = Quantity(300, "K")

\* C3: a query with the altitude omitted uses the stored default altitude; with
\* no default it fails with the MissingAltitude kind, with or without a unit,
\* and returns no Quantity.
C3_MissingAltitude ==
    (pc = "idle" /\ call.op \in QueryOps /\ call.arg = None) =>
        /\ alt = None => (err = "MissingAltitude" /\ ret = NoRet)
        /\ (alt # None /\ call.uni = NoUnit) => altitude = alt

\* C4: a raw-number altitude needs a unit (the query fails without one) and the
\* altitude is Value(number, unit); a Quantity altitude needs no unit, and a
\* unit given with it is ignored: the altitude used is that Quantity itself.
C4_UnitHandling ==
    (call.op \in QueryOps /\ (pc # "idle" \/ err = "")) =>
        LET a1 == EffectiveAlt(call.arg, alt)
        IN  /\ a1.t = "num" => (call.uni # NoUnit /\ altitude = Value(a1, call.uni))
            /\ a1.t = "Value" => altitude = a1

\* C5: a negative altitude handed to ratios, directly or through a query, fails
\* with ValueError (InvalidAltitude) before the search: no table entry is read
\* and no triple or Quantity is returned.
C5_NegativeAltitudeRejected ==
    ratios_alt < 0 =>
        /\ reads = {}
        /\ triple = NoTriple
        /\ ret = NoRet
        /\ pc = "ratios" \/ (pc = "idle" /\ err = "ValueError")

\* C5 witness: pressure called with a negative altitude has failed
C5_Witness ==
    /\ pc = "idle"
    /\ call.op = "pressure"
    /\ ratios_alt < 0
    /\ err = "ValueError"

\* C6 as stated: for h at or beyond the base altitude of the last band ratios
\* returns the all-zero triple.
C6_ZeroTripleBeyondTable ==
    (RatiosReturned /\ ~Below(h, df.htab[TopIndex(df)])) => triple = ZeroTriple

\* C6 amended: for h at or beyond the base altitude of the last band the search
\* reads only indexes of the table (no lookup failure), ends with the last
\* index, and ratios returns the triple of the last band's formulas.
C6_LastBandBeyondTable ==
    (RatiosReturned /\ ~Below(h, df.htab[TopIndex(df)])) =>
        /\ i = TopIndex(df)
        /\ k \in DOMAIN df.htab
        /\ triple = RatioTriple(df, TopIndex(df), h)

\* C6 witness: a direct call of ratios beyond the table has returned
C6_Witness ==
    /\ pc = "idle"
    /\ call.op = "ratios"
    /\ RatiosReturned
    /\ ~Below(h, df.htab[TopIndex(df)])

C8_SeaLevelRatios ==
    (RatiosReturned /\ ratios_alt = 0) =>
        /\ i = 0
        /\ Deltah(df, i, h)[1] = 0
        /\ triple = [sigma |-> One, delta |-> One, theta |-> One]
        /\ QueryReturned => ret = Mul(Reference(call.op), One)

\* C8 witness: temperature at altitude 0 has returned the reference
C8_Witness ==
    /\ QueryReturned
    /\ call.op = "temperature"
    /\ ratios_alt = 0
    /\ altitude = Quantity(0, "km")
    /\ ret = Mul(sea_level_temperature, One)

\* the loop of the search: from i = 0, j = NTAB; i < j throughout; only
\* indexes of the table are read; it goes on only while j > i+1 and is left
\* with j <= i+1; the triple is computed for index i
SearchInv ==
    /\ pc = "loop" => (i < j /\ j > i + 1 /\ (reads = {} => (i = 0 /\ j = NTAB)))
    /\ reads \subseteq DOMAIN df.htab
    /\ pc = "compute" => (i < j /\ j <= i + 1 /\ k \in reads)
    /\ RatiosReturned => triple = RatioTriple(df, i, h)

\* C9: the search loop terminates for every altitude h >= 0, keeping lo < hi,
\* reading only indexes 0..7, stopping as soon as hi - lo <= 1, and the index
\* used afterwards is lo.
C9_SearchTerminates ==
    /\ []SearchInv
    /\ (pc = "loop") ~> (pc = "compute")

\* C9 witness: the search has ended after reading three midpoints up to the last row
C9_Witness ==
    /\ pc = "compute"
    /\ reads = {4, 6, 7}
    /\ i = 7
    /\ j = 8

\* C10: no query and no step of ratios changes the instance: only a setter step
\* changes a sea-level field, and the default altitude never changes.
C10_QueriesChangeNothing ==
    [][/\ alt' = alt
       /\ ~(pc = "idle" /\ call'.op \in SetterOps) => UNCHANGED fields]_vars

\* C10 witness: a query with an explicit altitude has returned and the
\* instance still has no default altitude
C10_Witness ==
    /\ QueryReturned
    /\ call.op = "density"
    /\ call.arg = Num(5)
    /\ call.uni = "m"
    /\ alt = None
    /\ sea_level_density = Quantity(300, "K")

====
